---- MODULE Spec2Model ----
(***************************************************************************)
(* Vanilla LOOK (main_star.py): the sampling-and-refresh core.             *)
(*                                                                         *)
(* Two execution contexts: the daemon sampler thread ("bg"), which calls   *)
(* SystemSampler.snapshot() once per iteration and puts the result (or an  *)
(* error sentinel) on self.queue, and the Tk main thread ("ui"), which     *)
(* runs one callback at a time: the periodic _schedule_ui_update drain and *)
(* the user commands (toggle_logging, clear_logs, refresh_processes, the   *)
(* sort_by combobox and the proc_search entry).                            *)
(*                                                                         *)
(* Python's None is the empty tuple <<>>; a present value v is <<v>>.      *)
(* The host is deterministic in the logical clock (the t-th reading of a   *)
(* cumulative counter is a fixed increasing function of t, and the cpu and *)
(* memory percentages label the snapshot taken at t): the program never    *)
(* branches on these numbers, it only subtracts and stores them.           *)
(* Everything the program does branch on (a counter psutil cannot report,  *)
(* a counter that went backwards, a query that raises, a process whose     *)
(* attributes are denied, every user command) is a nondeterministic event, *)
(* and the number of events per run is bounded.                            *)
(***************************************************************************)
EXTENDS Integers, Sequences, FiniteSets, TLC

\* ---------------------------------------------------------------- constants
CHART_POINTS == 60      \* main_star.py:20
TOP_PROCS == 50         \* main_star.py:107, the [:50] slice

\* ------------------------------------------------------------------- bounds
MaxSamples == 2         \* sampler-loop iterations of a short run
MaxEvents == 3          \* host anomalies + user commands of a short run
MaxSamplesLong == 62    \* sampler-loop iterations of a long run
MaxEventsLong == 1      \* events of a long run (spent at the 60-point cap)

\* ------------------------------------------------------------ Python values
None == <<>>
Some(v) == <<v>>
Val(o) == o[1]

\* lst[-n:] for n > 0
LastN(lst, n) == IF Len(lst) <= n THEN lst ELSE SubSeq(lst, Len(lst) - n + 1, Len(lst))

\* lst[:n]
FirstN(lst, n) == IF Len(lst) <= n THEN lst ELSE SubSeq(lst, 1, n)

\* ------------------------------------------------------------------ the host
\* psutil.net_io_counters(pernic=False) at logical time t on a host whose
\* interfaces are up: cumulative, increasing in t.
NetAt(t) == [bytes_sent |-> t, bytes_recv |-> 2 * t]

\* ... after the counters restarted from zero (an interface went away).
NetReset == [bytes_sent |-> 0, bytes_recv |-> 0]

\* psutil.disk_io_counters() at logical time t.
DiskAt(t) == [read_bytes |-> 3 * t, write_bytes |-> t]

\* psutil.cpu_percent() and virtual_memory().percent of the sample taken at t
\* (both in 0..100, distinct for samples less than 101 ticks apart).
CpuAt(t) == t % 101
MemAt(t) == (2 * t + 1) % 101

\* What net_io_counters() may return at t: the counters, the restarted
\* counters, or None (psutil: no interface).
NetReadings(t) == {Some(NetAt(t)), Some(NetReset), None}

\* What disk_io_counters() may return at t: the counters or None (diskless).
DiskReadings(t) == {Some(DiskAt(t)), None}

\* psutil.process_iter(...).info tables, in enumeration order.  An attribute
\* psutil is denied access to is None.
ProcUsual ==
    << [pid |-> 1, name |-> "a", cpu_percent |-> Some(0), memory_percent |-> Some(2)],
       [pid |-> 2, name |-> "b", cpu_percent |-> Some(1), memory_percent |-> Some(1)] >>

ProcDenied ==
    << [pid |-> 1, name |-> "a", cpu_percent |-> Some(0), memory_percent |-> Some(2)],
       [pid |-> 3, name |-> "b", cpu_percent |-> None, memory_percent |-> Some(1)] >>

ProcTables == {ProcUsual, ProcDenied}

\* How many of a reading's components are anomalies (each one is an event).
Anomalies(t, net, disk, table) ==
      (IF net = Some(NetAt(t)) THEN 0 ELSE 1)
    + (IF disk = Some(DiskAt(t)) THEN 0 ELSE 1)
    + (IF table = ProcUsual THEN 0 ELSE 1)

\* ------------------------------------------------------------------ sorting
\* x.get(k) or 0.0
OrZero(o) == IF o = None THEN 0 ELSE Val(o)

\* The sort keys of the program, as pairs (a one-element key k is (k, 0)):
\*   "rank"   (cpu_percent or 0.0, memory_percent or 0.0)   main_star.py:107
\*   "memory" (memory_percent or 0)                         main_star.py:437
\*   "cpu"    (cpu_percent or 0)                            main_star.py:439
KeyOf(p, key) ==
    IF key = "rank" THEN <<OrZero(p.cpu_percent), OrZero(p.memory_percent)>>
    ELSE IF key = "memory" THEN <<OrZero(p.memory_percent), 0>>
    ELSE <<OrZero(p.cpu_percent), 0>>

\* Python's tuple order on two-element keys: a > b.
KeyGreater(a, b) == a[1] > b[1] \/ (a[1] = b[1] /\ a[2] > b[2])

\* list.sort(key=..., reverse=True) / sorted(..., reverse=True): descending
\* and stable (equal keys keep their original relative order).  Insertion of
\* p into an already sorted list goes after every entry whose key is >= p's.
RECURSIVE InsertDesc(_, _, _)
InsertDesc(p, lst, key) ==
    IF lst = <<>> THEN <<p>>
    ELSE IF KeyGreater(KeyOf(p, key), KeyOf(Head(lst), key)) THEN <<p>> \o lst
    ELSE <<Head(lst)>> \o InsertDesc(p, Tail(lst), key)

RECURSIVE SortDesc(_, _)
SortDesc(lst, key) ==
    IF lst = <<>> THEN <<>>
    ELSE InsertDesc(lst[Len(lst)], SortDesc(SubSeq(lst, 1, Len(lst) - 1), key), key)

\* Mutant of procs_sorted: the list is cut to 50 entries before it is sorted.
procs_cut_first(procs) == SortDesc(FirstN(procs, TOP_PROCS), "rank")

\* procs_sorted = sorted(procs, key=(cpu, mem), reverse=True)[:50]
procs_sorted(procs) == FirstN(SortDesc(procs, "rank"), TOP_PROCS)

\* -------------------------------------------------------------------- state
VARIABLES
    run,              \* the bounds of this run: [samples, events, quiet]
    samples,          \* sampler-loop iterations started
    events,           \* host anomalies and user commands so far
    clock,            \* logical time of the sampler's readings: now_iso()
    ticks,            \* time.time() readings of the main thread so far
    prev_net,         \* SystemSampler.prev_net
    prev_disk,        \* SystemSampler.prev_disk
    lock,             \* SystemSampler.lock: "free" or the context holding it
    frame,            \* per context: the position and locals of its snapshot() call
    ui_pc,            \* the Tk main thread: "idle", "drain", "get" or "refresh"
    timer,            \* an after(UPDATE_INTERVAL_MS, _schedule_ui_update) is pending
    queue,            \* VanillaLOOKApp.queue
    time_history,     \* VanillaLOOKApp.time_history
    cpu_history,      \* VanillaLOOKApp.cpu_history
    mem_history,      \* VanillaLOOKApp.mem_history
    latest_snapshot,  \* VanillaLOOKApp.latest_snapshot (None: attribute not set)
    log_history,      \* VanillaLOOKApp.log_history
    logging_enabled,  \* VanillaLOOKApp.logging_enabled
    status_var,       \* VanillaLOOKApp.status_var
    sort_by,          \* the sort_by combobox
    proc_search,      \* the proc_search entry
    proc_tree,        \* the pids shown in proc_tree
    enqueued,         \* history: every item put on the queue, in order
    dequeued,         \* history: every item taken off the queue, in order, with
                      \*          the logging flag it was applied under
    calls,            \* history: the snapshot() calls in the order they stored
                      \*          their counters; calls[1] is the constructor
    clears,           \* history: number of clear_logs commands
    call              \* a function applied on its own: [fn, arg, ret]

core == <<time_history, cpu_history, mem_history, latest_snapshot, log_history,
          logging_enabled>>
sampler == <<prev_net, prev_disk, lock, calls>>
widgets == <<status_var, sort_by, proc_search, proc_tree>>
app == <<run, samples, events, clock, ticks, prev_net, prev_disk, lock, frame, ui_pc, timer,
         queue, time_history, cpu_history, mem_history, latest_snapshot, log_history,
         logging_enabled, status_var, sort_by, proc_search, proc_tree,
         enqueued, dequeued, calls, clears>>
vars == <<app, call>>

Contexts == {"bg", "ui"}

\* No function is being applied on its own.
NoCall == [fn |-> "none", arg |-> None, ret |-> None]

\* n more events fit the run's bounds (a long run is uneventful until the
\* history is one point short of the cap).
EventOK(n) == n = 0 \/ (events + n <= run.events /\ Len(time_history) >= run.quiet)

IsError(item) == "error" \in DOMAIN item

\* --------------------------------------------------------- SystemSampler
\* SystemSampler.__init__: the baseline, read at logical time 0.
SamplerInit(net, disk) ==
    /\ prev_net = net
    /\ prev_disk = disk
    /\ lock = "free"
    /\ calls = << [ctx |-> "init", t |-> 0, net_io |-> net, disk_io |-> disk,
                   prev_net |-> None, prev_disk |-> None,
                   net_delta |-> None, disk_delta |-> None] >>

\* Mutant of LockFree: snapshot() runs without taking the lock.
NoLock == TRUE

\* with self.lock: entry
LockFree == lock = "free"

Acquire(c) ==
    /\ frame[c].pc = "acquire"
    /\ LockFree
    /\ lock' = c
    /\ frame' = [frame EXCEPT ![c] = [pc |-> "query"]]
    /\ UNCHANGED <<call, run, samples, events, clock, ticks, prev_net, prev_disk, ui_pc, timer, queue,
                   core, widgets, enqueued, dequeued, calls, clears>>

\* An exception leaves the with block: the lock is released, the call ends.
Raised(c, msg) ==
    /\ lock' = "free"
    /\ frame' = [frame EXCEPT ![c] = [pc |-> "raised", error |-> msg]]

\* Lines 55-107: the timestamp and the OS queries.  Any of the queries may
\* raise (OS_QUERY_ERROR); otherwise the readings are kept in locals.
QueryFails(c) ==
    /\ frame[c].pc = "query"
    /\ EventOK(1)
    /\ events' = events + 1
    /\ clock' = clock + 1
    /\ Raised(c, "OSError")
    /\ UNCHANGED <<call, run, samples, ticks, prev_net, prev_disk, ui_pc, timer, queue,
                   core, widgets, enqueued, dequeued, calls, clears>>

Query(c) ==
    /\ frame[c].pc = "query"
    /\ clock' = clock + 1
    /\ \E net \in NetReadings(clock'), disk \in DiskReadings(clock'), table \in ProcTables :
         /\ EventOK(Anomalies(clock', net, disk, table))
         /\ events' = events + Anomalies(clock', net, disk, table)
         /\ frame' = [frame EXCEPT ![c] =
                        [pc |-> "delta", t |-> clock', net_io |-> net, disk_io |-> disk,
                         cpu_percent |-> CpuAt(clock'), mem_percent |-> MemAt(clock'),
                         procs |-> procs_sorted(table)]]
    /\ UNCHANGED <<call, run, samples, ticks, prev_net, prev_disk, lock, ui_pc, timer, queue,
                   core, widgets, enqueued, dequeued, calls, clears>>

\* Line 110: time_interval = 1.0
time_interval == 1

\* Mutant of Rate: the operands of the subtraction are swapped.
RateSwapped(cur, prev, field) ==
    IF prev = None THEN None
    ELSE Some((Val(prev)[field] - Val(cur)[field]) \div time_interval)

\* (cur.field - prev.field)/time_interval if prev else None   (lines 112-117)
Rate(cur, prev, field) ==
    IF prev = None THEN None
    ELSE Some((Val(cur)[field] - Val(prev)[field]) \div time_interval)

net_delta(net_io, prev) ==
    [bytes_sent_per_sec |-> Rate(net_io, prev, "bytes_sent"),
     bytes_recv_per_sec |-> Rate(net_io, prev, "bytes_recv")]

disk_delta(disk_io, prev) ==
    [read_bytes_per_sec |-> Rate(disk_io, prev, "read_bytes"),
     write_bytes_per_sec |-> Rate(disk_io, prev, "write_bytes")]

\* Lines 110-118.  net_io.bytes_sent with net_io None (and a previous reading
\* to subtract) is an AttributeError; likewise disk_io.read_bytes.
Delta(c) ==
    /\ frame[c].pc = "delta"
    /\ IF \/ (prev_net /= None /\ frame[c].net_io = None)
          \/ (prev_disk /= None /\ frame[c].disk_io = None)
       THEN Raised(c, "AttributeError")
       ELSE /\ frame' = [frame EXCEPT ![c] =
                           [frame[c] EXCEPT !.pc = "store_net"] @@
                           [prev_net |-> prev_net, prev_disk |-> prev_disk,
                            net_delta |-> net_delta(frame[c].net_io, prev_net),
                            disk_delta |-> disk_delta(frame[c].disk_io, prev_disk)]]
            /\ UNCHANGED lock
    /\ UNCHANGED <<call, run, samples, events, clock, ticks, prev_net, prev_disk, ui_pc, timer, queue,
                   core, widgets, enqueued, dequeued, calls, clears>>

\* Line 121: self.prev_net = net_io
StoreNet(c) ==
    /\ frame[c].pc = "store_net"
    /\ prev_net' = frame[c].net_io
    /\ frame' = [frame EXCEPT ![c].pc = "store_disk"]
    /\ UNCHANGED <<call, run, samples, events, clock, ticks, prev_disk, lock, ui_pc, timer, queue,
                   core, widgets, enqueued, dequeued, calls, clears>>

\* Line 122: self.prev_disk = disk_io
StoreDisk(c) ==
    /\ frame[c].pc = "store_disk"
    /\ prev_disk' = frame[c].disk_io
    /\ frame' = [frame EXCEPT ![c].pc = "build"]
    /\ calls' = Append(calls, [ctx |-> c, t |-> frame[c].t, net_io |-> frame[c].net_io,
                               disk_io |-> frame[c].disk_io,
                               prev_net |-> frame[c].prev_net,
                               prev_disk |-> frame[c].prev_disk,
                               net_delta |-> frame[c].net_delta,
                               disk_delta |-> frame[c].disk_delta])
    /\ UNCHANGED <<call, run, samples, events, clock, ticks, prev_net, lock, ui_pc, timer, queue,
                   core, widgets, enqueued, dequeued, clears>>

\* The dictionary of lines 124-154.
Snapshot(f) ==
    [timestamp |-> f.t,
     cpu |-> [total_percent |-> f.cpu_percent],
     memory |-> [percent |-> f.mem_percent],
     network |-> [io |-> Val(f.net_io), rates |-> f.net_delta],
     processes |-> f.procs]

\* Lines 124-155.  vars(disk_io) / vars(net_io) with None is a TypeError
\* (None has neither _asdict nor __dict__); otherwise the snapshot is
\* returned and the with block releases the lock.
Build(c) ==
    /\ frame[c].pc = "build"
    /\ IF frame[c].disk_io = None \/ frame[c].net_io = None
       THEN Raised(c, "TypeError")
       ELSE /\ frame' = [frame EXCEPT ![c] = [pc |-> "returned", snap |-> Snapshot(frame[c])]]
            /\ lock' = "free"
    /\ UNCHANGED <<call, run, samples, events, clock, ticks, prev_net, prev_disk, ui_pc, timer, queue,
                   core, widgets, enqueued, dequeued, calls, clears>>

snapshot(c) ==
    \/ Acquire(c)
    \/ QueryFails(c)
    \/ Query(c)
    \/ Delta(c)
    \/ StoreNet(c)
    \/ StoreDisk(c)
    \/ Build(c)

\* ------------------------------------------------- the sampler thread (bg)
\* while True: (line 309) one more iteration starts.
BgIterate ==
    /\ frame["bg"].pc = "loop"
    /\ samples < run.samples
    /\ samples' = samples + 1
    /\ frame' = [frame EXCEPT !["bg"] = [pc |-> "acquire"]]
    /\ UNCHANGED <<call, run, events, clock, ticks, sampler, ui_pc, timer, queue, core, widgets,
                   enqueued, dequeued, clears>>

\* queue.Queue.put: the item joins the tail of the queue.
QueuePut(q, item) == Append(q, item)

\* Mutant of BgPut: a queue of maxsize 1, put() waits while it is full.
BgPutBounded ==
    /\ frame["bg"].pc = "returned"
    /\ Len(queue) < 1
    /\ queue' = QueuePut(queue, frame["bg"].snap)
    /\ enqueued' = Append(enqueued, frame["bg"].snap)
    /\ frame' = [frame EXCEPT !["bg"] = [pc |-> "sleep"]]
    /\ UNCHANGED <<call, run, samples, events, clock, ticks, sampler, ui_pc, timer, core, widgets,
                   dequeued, clears>>

\* Line 312: self.queue.put(snap)
BgPut ==
    /\ frame["bg"].pc = "returned"
    /\ queue' = QueuePut(queue, frame["bg"].snap)
    /\ enqueued' = Append(enqueued, frame["bg"].snap)
    /\ frame' = [frame EXCEPT !["bg"] = [pc |-> "sleep"]]
    /\ UNCHANGED <<call, run, samples, events, clock, ticks, sampler, ui_pc, timer, core, widgets,
                   dequeued, clears>>

\* Lines 313-314: the sentinel {"timestamp": now_iso(), "error": str(e)}
ErrorItem(t, msg) == [timestamp |-> t, error |-> msg]

\* Mutant of BgPutError: the exception is swallowed, nothing is enqueued.
BgDropError ==
    /\ frame["bg"].pc = "raised"
    /\ frame' = [frame EXCEPT !["bg"] = [pc |-> "sleep"]]
    /\ UNCHANGED <<call, run, samples, events, clock, ticks, sampler, ui_pc, timer, queue, core,
                   widgets, enqueued, dequeued, clears>>

BgPutError ==
    /\ frame["bg"].pc = "raised"
    /\ clock' = clock + 1
    /\ queue' = QueuePut(queue, ErrorItem(clock', frame["bg"].error))
    /\ enqueued' = Append(enqueued, ErrorItem(clock', frame["bg"].error))
    /\ frame' = [frame EXCEPT !["bg"] = [pc |-> "sleep"]]
    /\ UNCHANGED <<call, run, samples, events, ticks, sampler, ui_pc, timer, core, widgets,
                   dequeued, clears>>

\* Line 315: time.sleep(1.0) returns.
BgSleep ==
    /\ frame["bg"].pc = "sleep"
    /\ frame' = [frame EXCEPT !["bg"] = [pc |-> "loop"]]
    /\ UNCHANGED <<call, run, samples, events, clock, ticks, sampler, ui_pc, timer, queue, core,
                   widgets, enqueued, dequeued, clears>>

sampler_thread == BgIterate \/ snapshot("bg") \/ BgPut \/ BgPutError \/ BgSleep

\* ------------------------------------------------ refresh_processes' display
\* Lines 435-439: plist.sort(key=..., reverse=True), in place.
SortForDisplay(plist, key) ==
    IF key = "memory" THEN SortDesc(plist, "memory") ELSE SortDesc(plist, "cpu")

\* Lines 440-442: the search filter (names and queries are one letter, so
\* "query in name" is equality unless the query is empty).
Matches(p, query) == query = "" \/ p.name = query

FilterBy(plist, query) == SelectSeq(plist, LAMBDA p : Matches(p, query))

\* Line 447: f"{p.get('cpu_percent',0):.1f}" with the key present and None
\* is a TypeError (NoneType.__format__); likewise memory_percent.
RowRaises(p) == p.cpu_percent = None \/ p.memory_percent = None

\* Lines 443-448: the rows inserted, up to the first one that raises.
RECURSIVE Rows(_)
Rows(plist) ==
    IF plist = <<>> \/ RowRaises(Head(plist)) THEN <<>>
    ELSE <<Head(plist).pid>> \o Rows(Tail(plist))

DisplayRaises(plist) == \E i \in DOMAIN plist : RowRaises(plist[i])

\* ----------------------------------------------------------- _apply_snapshot
\* The snapshot as it is after refresh_processes(use_latest=True) sorted its
\* process list in place (the list is shared with latest_snapshot and with
\* the log entry appended afterwards).
Resorted(s, key) == [s EXCEPT !.processes = SortForDisplay(s.processes, key)]

\* Mutant of Capped: the cap is tested one entry late.
CappedLate(h) == IF Len(h) > CHART_POINTS + 1 THEN LastN(h, CHART_POINTS) ELSE h

\* Mutant of Capped: the slice keeps the oldest entries, h[:CHART_POINTS].
CappedOldest(h) == IF Len(h) > CHART_POINTS THEN FirstN(h, CHART_POINTS) ELSE h

\* Lines 344-347: keep the last CHART_POINTS entries.
Capped(h) == IF Len(h) > CHART_POINTS THEN LastN(h, CHART_POINTS) ELSE h

\* Mutant of SetLatest: the assignment is made after the redraw, so it is
\* skipped when the redraw raises.
SetLatestAfterRedraw(s) ==
    latest_snapshot' = IF DisplayRaises(FilterBy(s.processes, proc_search))
                       THEN latest_snapshot ELSE Some(s)

\* Line 370
SetLatest(s) == latest_snapshot' = Some(s)

\* Mutant of ApplyError: the sentinel is also charted, as a zero sample.
ApplyErrorCharted(s) ==
    /\ status_var' = <<"Sampler error", s.error>>
    /\ ticks' = ticks + 1
    /\ time_history' = Append(time_history, ticks')
    /\ cpu_history' = Append(cpu_history, 0)
    /\ mem_history' = Append(mem_history, 0)
    /\ UNCHANGED <<latest_snapshot, log_history, logging_enabled, sort_by, proc_search,
                   proc_tree>>

\* Lines 333-335: an error sentinel only sets the status text.
ApplyError(s) ==
    /\ status_var' = <<"Sampler error", s.error>>
    /\ UNCHANGED <<ticks, core, sort_by, proc_search, proc_tree>>

\* Mutant of UsesLatest: the redraw never takes the latest snapshot (as if
\* line 371 called refresh_processes() without use_latest).
UsesFresh(use_latest) == FALSE

\* Line 429, as _apply_snapshot reaches it (line 370 has set the attribute):
\* use_latest and hasattr(self, "latest_snapshot")
UsesLatest(use_latest) == use_latest /\ latest_snapshot' /= None

\* Lines 336-376.  The history is appended and capped, the snapshot becomes
\* latest_snapshot, the process table is redrawn from it by
\* refresh_processes(use_latest=True), and then (only if the redraw did not
\* raise) the snapshot is logged and the status text set.
ApplySnapshot(s) ==
    LET shown == FilterBy(SortForDisplay(s.processes, sort_by), proc_search) IN
    /\ ticks' = ticks + 1
    /\ time_history' = Capped(Append(time_history, ticks'))
    /\ cpu_history' = Capped(Append(cpu_history, s.cpu.total_percent))
    /\ mem_history' = Capped(Append(mem_history, s.memory.percent))
    /\ SetLatest(Resorted(s, sort_by))
    /\ IF ~UsesLatest(TRUE)
       THEN UNCHANGED <<proc_tree, log_history, status_var>>
       ELSE /\ proc_tree' = Rows(shown)
            /\ IF DisplayRaises(shown)
               THEN UNCHANGED <<log_history, status_var>>
               ELSE /\ log_history' = IF logging_enabled
                                      THEN Append(log_history, Resorted(s, sort_by))
                                      ELSE log_history
                    /\ status_var' = <<"Last update", s.timestamp>>
    /\ UNCHANGED <<logging_enabled, sort_by, proc_search>>

\* Whether _apply_snapshot(s) goes on to line 433, self.sampler.snapshot().
ApplyResamples(s) == ~IsError(s) /\ ~UsesLatest(TRUE)

\* Whether _apply_snapshot(s) ends with an exception.
ApplyRaises(s) ==
    /\ ~IsError(s)
    /\ DisplayRaises(FilterBy(SortForDisplay(s.processes, sort_by), proc_search))

_apply_snapshot(s) == IF IsError(s) THEN ApplyError(s) ELSE ApplySnapshot(s)

\* ------------------------------------------------------ the Tk main thread
\* The pending after() callback fires: _schedule_ui_update starts.
TimerFires ==
    /\ ui_pc = "idle"
    /\ timer
    /\ timer' = FALSE
    /\ ui_pc' = "drain"
    /\ UNCHANGED <<call, run, samples, events, clock, ticks, sampler, frame, queue, core, widgets,
                   enqueued, dequeued, clears>>

\* Mutant of QueueGet: the newest item is taken (a LIFO queue).
QueueGetNewest(q) == [item |-> q[Len(q)], rest |-> SubSeq(q, 1, Len(q) - 1)]

\* queue.Queue.get_nowait on a non-empty queue: the item at the head, and
\* the queue that is left.
QueueGet(q) == [item |-> Head(q), rest |-> Tail(q)]

\* Line 324: while not self.queue.empty() finds an item.
DrainPoll ==
    /\ ui_pc = "drain"
    /\ queue /= <<>>
    /\ ui_pc' = "get"
    /\ UNCHANGED <<call, run, samples, events, clock, ticks, sampler, frame, timer, queue, core,
                   widgets, enqueued, dequeued, clears>>

\* _process_queue, lines 325-327: get_nowait (queue.Empty if there is no
\* item) and _apply_snapshot.  An exception leaves _process_queue and
\* _schedule_ui_update before line 320, so no further after() is scheduled.
DrainOne ==
    /\ ui_pc = "get"
    /\ IF queue = <<>>
       THEN /\ ui_pc' = "idle"
            /\ UNCHANGED <<ticks, frame, queue, core, widgets, dequeued>>
       ELSE /\ queue' = QueueGet(queue).rest
            /\ dequeued' = Append(dequeued, [item |-> QueueGet(queue).item,
                                              logging |-> logging_enabled])
            /\ _apply_snapshot(QueueGet(queue).item)
            /\ ui_pc' = IF ApplyRaises(QueueGet(queue).item) THEN "idle"
                        ELSE IF ApplyResamples(QueueGet(queue).item) THEN "refresh"
                        ELSE "drain"
            /\ frame' = IF ApplyResamples(QueueGet(queue).item)
                        THEN [frame EXCEPT !["ui"] = [pc |-> "acquire"]]
                        ELSE frame
    /\ UNCHANGED <<call, run, samples, events, clock, sampler, timer, enqueued, clears>>

\* Line 324 finds the queue empty; line 320 schedules the next update.
DrainDone ==
    /\ ui_pc = "drain"
    /\ queue = <<>>
    /\ ui_pc' = "idle"
    /\ timer' = TRUE
    /\ UNCHANGED <<call, run, samples, events, clock, ticks, sampler, frame, queue, core, widgets,
                   enqueued, dequeued, clears>>

_schedule_ui_update == TimerFires \/ DrainPoll \/ DrainOne \/ DrainDone

\* A user command starts: the main thread is idle and one more event fits.
Command ==
    /\ ui_pc = "idle"
    /\ EventOK(1)
    /\ events' = events + 1

\* Mutant of toggle_logging: starting to log also empties the log list.
toggle_logging_fresh ==
    /\ Command
    /\ logging_enabled' = ~logging_enabled
    /\ log_history' = IF logging_enabled' THEN <<>> ELSE log_history
    /\ status_var' = IF logging_enabled' THEN <<"Logging started">> ELSE <<"Logging stopped">>
    /\ UNCHANGED <<call, run, samples, clock, ticks, sampler, frame, ui_pc, timer, queue,
                   time_history, cpu_history, mem_history, latest_snapshot,
                   sort_by, proc_search, proc_tree, enqueued, dequeued, clears>>

\* Lines 405-408
toggle_logging ==
    /\ Command
    /\ logging_enabled' = ~logging_enabled
    /\ status_var' = IF logging_enabled' THEN <<"Logging started">> ELSE <<"Logging stopped">>
    /\ UNCHANGED <<call, run, samples, clock, ticks, sampler, frame, ui_pc, timer, queue,
                   time_history, cpu_history, mem_history, latest_snapshot, log_history,
                   sort_by, proc_search, proc_tree, enqueued, dequeued, clears>>

\* Lines 422-426
clear_logs ==
    /\ Command
    /\ log_history' = <<>>
    /\ status_var' = <<"Logs cleared">>
    /\ clears' = clears + 1
    /\ UNCHANGED <<call, run, samples, clock, ticks, sampler, frame, ui_pc, timer, queue,
                   time_history, cpu_history, mem_history, latest_snapshot, logging_enabled,
                   sort_by, proc_search, proc_tree, enqueued, dequeued>>

\* The user picks the other entry of the sort_by combobox (line 268).
SelectSortBy ==
    /\ Command
    /\ sort_by' = IF sort_by = "cpu" THEN "memory" ELSE "cpu"
    /\ UNCHANGED <<call, run, samples, clock, ticks, sampler, frame, ui_pc, timer, queue, core,
                   status_var, proc_search, proc_tree, enqueued, dequeued, clears>>

\* The user types a query into proc_search, or empties it (line 263).
Queries == {"", "a"}

TypeSearch ==
    /\ Command
    /\ \E q \in Queries \ {proc_search} : proc_search' = q
    /\ UNCHANGED <<call, run, samples, clock, ticks, sampler, frame, ui_pc, timer, queue, core,
                   status_var, sort_by, proc_tree, enqueued, dequeued, clears>>

\* refresh_processes() without use_latest (the Refresh button, <Return> in
\* the search entry): line 433 calls self.sampler.snapshot() on the main thread.
RefreshStart ==
    /\ Command
    /\ ui_pc' = "refresh"
    /\ frame' = [frame EXCEPT !["ui"] = [pc |-> "acquire"]]
    /\ UNCHANGED <<call, run, samples, clock, ticks, sampler, timer, queue, core, widgets,
                   enqueued, dequeued, clears>>

\* Mutant of RefreshEnd: the fresh snapshot is kept as latest_snapshot.
RefreshEndKeeps ==
    /\ ui_pc = "refresh"
    /\ frame["ui"].pc \in {"returned", "raised"}
    /\ proc_tree' = IF frame["ui"].pc = "raised" THEN proc_tree
                    ELSE Rows(FilterBy(SortForDisplay(frame["ui"].snap.processes, sort_by),
                                       proc_search))
    /\ latest_snapshot' = IF frame["ui"].pc = "raised" THEN latest_snapshot
                          ELSE Some(Resorted(frame["ui"].snap, sort_by))
    /\ ui_pc' = "idle"
    /\ frame' = [frame EXCEPT !["ui"] = [pc |-> "idle"]]
    /\ UNCHANGED <<call, run, samples, events, clock, ticks, sampler, timer, queue,
                   time_history, cpu_history, mem_history, log_history, logging_enabled,
                   status_var, sort_by, proc_search, enqueued, dequeued, clears>>

\* Lines 434-448 with the fresh snapshot: sort, filter, redraw.  If
\* snapshot() raised, the callback ends at line 433.
RefreshEnd ==
    /\ ui_pc = "refresh"
    /\ frame["ui"].pc \in {"returned", "raised"}
    /\ proc_tree' = IF frame["ui"].pc = "raised" THEN proc_tree
                    ELSE Rows(FilterBy(SortForDisplay(frame["ui"].snap.processes, sort_by),
                                       proc_search))
    /\ ui_pc' = "idle"
    /\ frame' = [frame EXCEPT !["ui"] = [pc |-> "idle"]]
    /\ UNCHANGED <<call, run, samples, events, clock, ticks, sampler, timer, queue, core,
                   status_var, sort_by, proc_search, enqueued, dequeued, clears>>

refresh_processes == RefreshStart \/ snapshot("ui") \/ RefreshEnd

\* ------------------------------------------------------------ specification
\* VanillaLOOKApp.__init__ (lines 161-178) after SystemSampler.__init__ read
\* the baseline: the sampler thread is started, the first drain found the
\* queue empty and scheduled the next one.
AppInit ==
    /\ samples = 0
    /\ clock = 0
    /\ ticks = 0
    /\ frame = [c \in Contexts |-> IF c = "bg" THEN [pc |-> "loop"] ELSE [pc |-> "idle"]]
    /\ ui_pc = "idle"
    /\ timer = TRUE
    /\ queue = <<>>
    /\ time_history = <<>>
    /\ cpu_history = <<>>
    /\ mem_history = <<>>
    /\ latest_snapshot = None
    /\ log_history = <<>>
    /\ logging_enabled = FALSE
    /\ status_var = <<"Ready">>
    /\ sort_by = "cpu"
    /\ proc_search = ""
    /\ proc_tree = <<>>
    /\ enqueued = <<>>
    /\ dequeued = <<>>
    /\ clears = 0

\* A short run: few samples, events at any time; a baseline psutil could not
\* read (None) is an event.
Init ==
    /\ run = [samples |-> MaxSamples, events |-> MaxEvents, quiet |-> 0]
    /\ \E net \in {Some(NetAt(0)), None}, disk \in {Some(DiskAt(0)), None} :
         /\ SamplerInit(net, disk)
         /\ events = Anomalies(0, net, disk, ProcUsual)
    /\ AppInit
    /\ call = NoCall

\* A long run: enough samples to fill the history past CHART_POINTS, with
\* the events held back until the history is one point short of the cap.
InitLong ==
    /\ run = [samples |-> MaxSamplesLong, events |-> MaxEventsLong,
              quiet |-> CHART_POINTS - 1]
    /\ SamplerInit(Some(NetAt(0)), Some(DiskAt(0)))
    /\ events = 0
    /\ AppInit
    /\ call = NoCall

Next ==
    \/ sampler_thread
    \/ _schedule_ui_update
    \/ toggle_logging
    \/ clear_logs
    \/ SelectSortBy
    \/ TypeSearch
    \/ refresh_processes

Spec == Init /\ [][Next]_vars

SpecLong == InitLong /\ [][Next]_vars

\* ------------------------------------------- functions applied on their own
\* The pure parts of snapshot() and the helpers, applied to inputs the short
\* and long runs are too small for: a process table longer than the [:50]
\* slice, mounted partitions, byte counts of every unit.
MaxProcs == 52          \* processes of the largest table

\* Process i of a table of the given kind, in psutil's enumeration order:
\*   "rising"  cpu and memory rise and repeat, so keys tie and the order of
\*             enumeration is not the ranking;
\*   "idle"    nothing uses the cpu, memory rises with the pid;
\*   "denied"  every third cpu_percent and every fifth memory_percent is None.
ProcKinds == {"rising", "idle", "denied"}

ProcAt(i, kind) ==
    [pid |-> i,
     name |-> IF i % 2 = 0 THEN "a" ELSE "b",
     cpu_percent |-> IF kind = "rising" THEN Some(i % 4)
                     ELSE IF kind = "idle" THEN Some(0)
                     ELSE IF i % 3 = 0 THEN None ELSE Some(i % 2),
     memory_percent |-> IF kind = "rising" THEN Some(i % 3)
                        ELSE IF kind = "idle" THEN Some(i)
                        ELSE IF i % 5 = 0 THEN None ELSE Some(i % 4)]

ProcTable(n, kind) == [i \in 1..n |-> ProcAt(i, kind)]

\* ------------------------------------------------------------- human_bytes
\* A byte count m * 1024^e (TLC's integers end at 2^31 - 1, a count of
\* exabytes does not fit): the mantissa m is below 2^21, so float(num) and
\* every division by 1024.0 are exact.  In the loop e goes below zero.
Bytes(m, e) == [m |-> m, e |-> e]

RECURSIVE Pow1024(_)
Pow1024(k) == IF k = 0 THEN 1 ELSE 1024 * Pow1024(k - 1)

\* Line 36
UNITS == <<"", "K", "M", "G", "T", "P", "E", "Z">>

\* Mutant of Below1024: decimal unit steps, abs(num) < 1000.0.
Below1000(num) ==
    IF num.e > 0 THEN num.m = 0
    ELSE IF num.e < -1 THEN TRUE
    ELSE num.m < 1000 * Pow1024(-num.e)

\* Line 37: abs(num) < 1024.0   (m < 2^21 < 1024 * 1024^2)
Below1024(num) ==
    IF num.e > 0 THEN num.m = 0
    ELSE IF num.e < -1 THEN TRUE
    ELSE num.m < 1024 * Pow1024(-num.e)

\* The tenths of frac/D to the nearest, a tie going to the even digit (the
\* float is exact, and Python rounds its exact value half-to-even); 10 when
\* the rounding carries into the integer part.
Tenths(frac, D) ==
    LET q == (frac * 10) \div D
        r == (frac * 10) % D
    IN  IF 2 * r > D THEN q + 1
        ELSE IF 2 * r = D THEN q + (q % 2)
        ELSE q

\* f"{num:3.1f}" (and f"{num:.1f}": the text is never shorter than 3).
Format1f(num) ==
    IF num.m = 0 THEN "0.0"
    ELSE IF num.e >= 0 THEN ToString(num.m * Pow1024(num.e)) \o ".0"
    ELSE LET D == Pow1024(-num.e)
             t == Tenths(num.m % D, D)
         IN  IF t = 10 THEN ToString(num.m \div D + 1) \o ".0"
             ELSE ToString(num.m \div D) \o "." \o ToString(t)

\* Lines 36-40: the loop over the units, from unit i on.
RECURSIVE human_bytes_loop(_, _, _)
human_bytes_loop(num, i, suffix) ==
    IF i > Len(UNITS) THEN Format1f(num) \o "Y" \o suffix
    ELSE IF Below1024(num) THEN Format1f(num) \o UNITS[i] \o suffix
    ELSE human_bytes_loop([num EXCEPT !.e = @ - 1], i + 1, suffix)

\* Lines 28-40, suffix='B'.  (float(num) of an integer does not raise.)
human_bytes(num) == IF num = None THEN "N/A" ELSE human_bytes_loop(Val(num), 1, "B")

MaxExp == 8             \* the largest byte count is below 2^21 * 1024^MaxExp

Mantissas == {0, 1, 512, 1000, 1023, 1024, 1025, 1280, 1536, 1792, 10189, 1023999,
              1048524, 1048525, 1048575, 1048576, 1572864, 2097151}

ByteInputs ==
    {[fn |-> "human_bytes", arg |-> Some(Bytes(m, e)), ret |-> None] :
        m \in Mantissas, e \in 0..MaxExp}
    \cup {[fn |-> "human_bytes", arg |-> None, ret |-> None]}

FormatBytes ==
    /\ call.fn = "human_bytes"
    /\ call.ret = None
    /\ call' = [call EXCEPT !.ret = Some(human_bytes(call.arg))]
    /\ UNCHANGED app

\* -------------------------------------------------------------- partitions
MaxMounts == 3          \* mounted partitions

\* psutil.disk_usage(mountpoint) of the i-th mounted partition.
UsageAt(i) == [total |-> Bytes(8 * i, 3), used |-> Bytes(3 * i, 3), free |-> Bytes(5 * i, 3),
               percent |-> 37 + i]

\* Lines 70-73: the local usage, None after a PermissionError.
MountAt(i, denied) ==
    [device |-> i, mountpoint |-> i, usage |-> IF i \in denied THEN None ELSE Some(UsageAt(i))]

\* Lines 74-85: the entry appended for one partition.  "usage" is always a
\* dictionary; each of its four values is None when the local usage is None.
PartitionEntry(p) ==
    [device |-> p.device,
     mountpoint |-> p.mountpoint,
     usage |-> Some([total |-> IF p.usage /= None THEN Some(Val(p.usage).total) ELSE None,
                     used |-> IF p.usage /= None THEN Some(Val(p.usage).used) ELSE None,
                     free |-> IF p.usage /= None THEN Some(Val(p.usage).free) ELSE None,
                     percent |-> IF p.usage /= None THEN Some(Val(p.usage).percent) ELSE None])]

\* Lines 68-85
partitions(mounts) == [i \in DOMAIN mounts |-> PartitionEntry(mounts[i])]

\* f"{usage.get('percent')}%"
PercentText(o) == IF o = None THEN "None%" ELSE ToString(Val(o)) \o "%"

\* Lines 352-360: the disk_tree row of one partition.  A dictionary with
\* keys is true, so the "N/A" alternative is taken only for usage None.
disk_row(p) ==
    LET usage == p.usage IN
    [mountpoint |-> p.mountpoint,
     total |-> IF usage /= None THEN human_bytes(Val(usage).total) ELSE "N/A",
     used |-> IF usage /= None THEN human_bytes(Val(usage).used) ELSE "N/A",
     free |-> IF usage /= None THEN human_bytes(Val(usage).free) ELSE "N/A",
     percent |-> IF usage /= None THEN PercentText(Val(usage).percent) ELSE "N/A"]

MountInputs ==
    {[fn |-> "partitions", arg |-> [i \in 1..n |-> MountAt(i, denied)], ret |-> None] :
        n \in 0..MaxMounts, denied \in SUBSET (1..MaxMounts)}

\* Lines 68-85 on the mounted partitions, and the rows lines 351-360 show.
ListPartitions ==
    /\ call.fn = "partitions"
    /\ call.ret = None
    /\ call' = [call EXCEPT !.ret =
                   Some([partitions |-> partitions(call.arg),
                         disk_tree |-> [i \in DOMAIN call.arg |->
                                           disk_row(partitions(call.arg)[i])]])]
    /\ UNCHANGED app

ProcInputs ==
    {[fn |-> "procs_sorted", arg |-> ProcTable(n, kind), ret |-> None] :
        n \in 0..MaxProcs, kind \in ProcKinds}

\* Lines 92-107 on a table: the ranked, truncated process list.
RankProcesses ==
    /\ call.fn = "procs_sorted"
    /\ call.ret = None
    /\ call' = [call EXCEPT !.ret = Some(procs_sorted(call.arg))]
    /\ UNCHANGED app

InitFn ==
    /\ run = [samples |-> 0, events |-> 0, quiet |-> 0]
    /\ SamplerInit(Some(NetAt(0)), Some(DiskAt(0)))
    /\ events = 0
    /\ AppInit
    /\ call \in ProcInputs \cup ByteInputs \cup MountInputs

NextFn ==
    \/ RankProcesses
    \/ FormatBytes
    \/ ListPartitions

SpecFn == InitFn /\ [][NextFn]_vars

\* =================================================================== claims
Min(a, b) == IF a < b THEN a ELSE b

\* The snapshots handed to _apply_snapshot so far (error sentinels left
\* out), oldest first, each with the logging flag it was applied under.
Applied == SelectSeq(dequeued, LAMBDA d : ~IsError(d.item))

AppliedCpu == [i \in 1..Len(Applied) |-> Applied[i].item.cpu.total_percent]
AppliedMem == [i \in 1..Len(Applied) |-> Applied[i].item.memory.percent]

\* C1: after N applied snapshots the three history lists have the same
\* length, and that length is min(N, 60), in every reachable state.
C1_HistoryLength ==
    /\ Len(time_history) = Min(Len(Applied), 60)
    /\ Len(cpu_history) = Len(time_history)
    /\ Len(mem_history) = Len(time_history)

\* More than 60 snapshots were applied, with an error sentinel among the
\* drained items.
C1_Witness ==
    /\ Len(Applied) > 60
    /\ \E i \in DOMAIN dequeued : IsError(dequeued[i].item)

\* C2: once more than 60 snapshots were applied, cpu_history and mem_history
\* hold exactly the values of the 60 most recently applied ones, oldest
\* first: entry i is the value of applied snapshot N-60+i.
C2_FifoEviction ==
    Len(Applied) > 60 =>
        /\ Len(cpu_history) = 60
        /\ Len(mem_history) = 60
        /\ \A i \in 1..60 :
             /\ cpu_history[i] = AppliedCpu[Len(Applied) - 60 + i]
             /\ mem_history[i] = AppliedMem[Len(Applied) - 60 + i]

\* Two entries have been evicted.
C2_Witness == Len(Applied) >= 62 /\ Len(cpu_history) = 60

\* C3: the items are taken off the queue in the order they were put on it,
\* each once and none skipped (what was dequeued, followed by what is still
\* queued, is what was enqueued), and the history holds the applied values
\* in that order.
C3_QueueOrder ==
    /\ enqueued = [i \in 1..Len(dequeued) |-> dequeued[i].item] \o queue
    /\ \A i, j \in DOMAIN enqueued :
         i < j => enqueued[i].timestamp < enqueued[j].timestamp
    /\ cpu_history = LastN(AppliedCpu, 60)
    /\ mem_history = LastN(AppliedMem, 60)

\* The consumer was delayed: two items had accumulated before the drain
\* that applied both.
C3_Witness ==
    /\ ui_pc = "drain"
    /\ Len(Applied) = 2
    /\ cpu_history = <<CpuAt(1), CpuAt(2)>>
    /\ queue = <<>>

\* The critical section of snapshot(): from the lock taken to the return.
InSnapshot(c) == frame[c].pc \in {"query", "delta", "store_net", "store_disk", "build"}

\* C4: the snapshot() calls of the two contexts are serialized: the N-th
\* call to store its counters computed its rates from the counters stored
\* by the (N-1)-th (the constructor's baseline for the first), the two
\* contexts are never inside the locked section together, and outside it
\* prev_net and prev_disk are the pair stored by the last call.
C4_Serialized ==
    /\ ~(InSnapshot("bg") /\ InSnapshot("ui"))
    /\ \A i \in 2..Len(calls) :
         /\ calls[i].prev_net = calls[i-1].net_io
         /\ calls[i].prev_disk = calls[i-1].disk_io
         /\ calls[i].net_delta =
              IF calls[i-1].net_io = None
              THEN [bytes_sent_per_sec |-> None, bytes_recv_per_sec |-> None]
              ELSE [bytes_sent_per_sec |->
                        Some(Val(calls[i].net_io).bytes_sent - Val(calls[i-1].net_io).bytes_sent),
                    bytes_recv_per_sec |->
                        Some(Val(calls[i].net_io).bytes_recv - Val(calls[i-1].net_io).bytes_recv)]
    /\ lock = "free" =>
         /\ prev_net = calls[Len(calls)].net_io
         /\ prev_disk = calls[Len(calls)].disk_io

\* The main thread waits for the lock the sampler thread holds, after an
\* on-demand call was served between two calls of the sampler thread.
C4_Witness ==
    /\ Len(calls) = 4
    /\ calls[2].ctx = "bg" /\ calls[3].ctx = "ui" /\ calls[4].ctx = "bg"
    /\ frame["ui"].pc = "acquire"
    /\ lock = "bg"

\* The snapshots snapshot() has returned: those the sampler thread put on
\* the queue and the one an on-demand refresh is about to display.
Returned ==
    {enqueued[i] : i \in {j \in DOMAIN enqueued : ~IsError(enqueued[j])}}
    \cup {frame[c].snap : c \in {d \in Contexts : frame[d].pc = "returned"}}

\* The call that produced snapshot s, as an index into calls.
CallOf(s) == CHOOSE i \in 2..Len(calls) : calls[i].t = s.timestamp

\* The counters the call before the one that produced s had stored.
PrevNetOf(s) == calls[CallOf(s) - 1].net_io

\* C5 as stated: in every snapshot both rate fields are present and equal
\* current - previous, previous being the counter stored by the preceding
\* call (the constructor's baseline for the first call).
C5_RatesNeverNull ==
    \A s \in Returned :
        /\ s.network.rates.bytes_sent_per_sec /= None
        /\ s.network.rates.bytes_recv_per_sec /= None
        /\ PrevNetOf(s) /= None
        /\ Val(s.network.rates.bytes_sent_per_sec) =
               s.network.io.bytes_sent - Val(PrevNetOf(s)).bytes_sent
        /\ Val(s.network.rates.bytes_recv_per_sec) =
               s.network.io.bytes_recv - Val(PrevNetOf(s)).bytes_recv

\* C5 (amended): in every snapshot both rate fields equal current - previous
\* (divisor 1), previous being the counter stored by the preceding call or
\* the constructor's baseline, and are then non-negative whenever the
\* counter did not decrease; both are null exactly when that stored
\* previous counter is None.
C5_Rates ==
    \A s \in Returned :
        IF PrevNetOf(s) = None
        THEN /\ s.network.rates.bytes_sent_per_sec = None
             /\ s.network.rates.bytes_recv_per_sec = None
        ELSE /\ s.network.rates.bytes_sent_per_sec =
                    Some(s.network.io.bytes_sent - Val(PrevNetOf(s)).bytes_sent)
             /\ s.network.rates.bytes_recv_per_sec =
                    Some(s.network.io.bytes_recv - Val(PrevNetOf(s)).bytes_recv)
             /\ s.network.io.bytes_sent >= Val(PrevNetOf(s)).bytes_sent
                    => Val(s.network.rates.bytes_sent_per_sec) >= 0
             /\ s.network.io.bytes_recv >= Val(PrevNetOf(s)).bytes_recv
                    => Val(s.network.rates.bytes_recv_per_sec) >= 0

\* A snapshot whose rates are taken against the counters of the call
\* before it (not the baseline), and are positive; and one taken against
\* the baseline.
C5_Witness ==
    /\ \E s \in Returned :
         /\ CallOf(s) = 3
         /\ PrevNetOf(s) /= None
         /\ Val(s.network.rates.bytes_sent_per_sec) > 0
         /\ Val(s.network.rates.bytes_recv_per_sec) > Val(s.network.rates.bytes_sent_per_sec)
    /\ \E s \in Returned : CallOf(s) = 2

\* One step of the sampler thread's loop body, lines 310-315.
C6_Step ==
    /\ (frame["bg"].pc = "returned" /\ frame'["bg"] /= frame["bg"]) =>
          /\ queue' = Append(queue, frame["bg"].snap)
          /\ enqueued' = Append(enqueued, frame["bg"].snap)
          /\ ~IsError(frame["bg"].snap)
          /\ frame'["bg"].pc = "sleep"
    /\ (frame["bg"].pc = "raised" /\ frame'["bg"] /= frame["bg"]) =>
          /\ queue' = Append(queue, [timestamp |-> clock', error |-> frame["bg"].error])
          /\ enqueued' = Append(enqueued, [timestamp |-> clock', error |-> frame["bg"].error])
          /\ frame'["bg"].pc = "sleep"
    /\ (frame["bg"].pc = "sleep" /\ frame'["bg"] /= frame["bg"]) => frame'["bg"].pc = "loop"
    /\ enqueued' /= enqueued => frame["bg"].pc \in {"returned", "raised"}

\* C6: every iteration of the sampler loop enqueues exactly one item (the
\* items enqueued are as many as the iterations that reached their sleep),
\* the snapshot if snapshot() returned and otherwise an error sentinel with
\* a timestamp and the message; after either, the loop sleeps and iterates.
C6_OneItemPerIteration ==
    /\ [](Len(enqueued) =
            IF frame["bg"].pc \in {"loop", "sleep"} THEN samples ELSE samples - 1)
    /\ [](frame["bg"].pc = "sleep" => ENABLED BgSleep)
    /\ [](frame["bg"].pc = "loop" /\ samples < run.samples => ENABLED BgIterate)
    /\ [][C6_Step]_vars

\* A failed iteration was followed by one that enqueued a snapshot.
C6_Witness ==
    /\ Len(enqueued) = 2
    /\ IsError(enqueued[1])
    /\ ~IsError(enqueued[2])

\* C7: applying an error sentinel changes only the status text: the three
\* histories, latest_snapshot, log_history and logging_enabled are unchanged.
C7_ErrorOnlyStatus ==
    [][(Len(dequeued') = Len(dequeued) + 1 /\ IsError(dequeued'[Len(dequeued')].item)) =>
          /\ UNCHANGED <<time_history, cpu_history, mem_history, latest_snapshot,
                         log_history, logging_enabled>>
          /\ UNCHANGED <<sort_by, proc_search, proc_tree>>
          /\ status_var' = <<"Sampler error", dequeued'[Len(dequeued')].item.error>>]_vars

\* An error sentinel was applied on top of a charted, logged snapshot.
C7_Witness ==
    /\ status_var[1] = "Sampler error"
    /\ Len(cpu_history) = 1
    /\ latest_snapshot /= None
    /\ Len(log_history) = 1

\* The timestamps of a list of snapshots (a snapshot is identified by the
\* timestamp of the call that produced it).
Stamps(snaps) == [i \in 1..Len(snaps) |-> snaps[i].timestamp]

\* The snapshots applied while logging_enabled was true.
AppliedLogging == SelectSeq(Applied, LAMBDA d : d.logging)

\* Logging was on for one block of consecutive applied snapshots only.
OneLoggedBlock ==
    \A i, j, k \in DOMAIN Applied :
        (i < j /\ j < k) => ~(Applied[i].logging /\ ~Applied[j].logging /\ Applied[k].logging)

\* C8: from an empty log list with logging off, after logging was toggled
\* on and later off with J snapshots applied in between (and no clear_logs),
\* the log list is exactly those J snapshots, in application order.
C8_LogIsLoggedBlock ==
    (clears = 0 /\ ~logging_enabled /\ OneLoggedBlock) =>
        Stamps(log_history) = Stamps([i \in 1..Len(AppliedLogging) |-> AppliedLogging[i].item])

\* The step that applies a snapshot (not an error sentinel).
AppliesSnapshot ==
    /\ Len(dequeued') = Len(dequeued) + 1
    /\ ~IsError(dequeued'[Len(dequeued')].item)

\* C9: the logging flag only decides log retention.  A snapshot applied
\* while logging is off is appended to the three histories and becomes
\* latest_snapshot, and the log list is unchanged; a step that changes the
\* flag is toggle_logging's, which changes nothing else of the histories,
\* latest_snapshot, the log list and the queue.
C9_FlagOnlyRetention ==
    [][/\ (AppliesSnapshot /\ ~logging_enabled) =>
            /\ log_history' = log_history
            /\ logging_enabled' = logging_enabled
            /\ cpu_history' = LastN(cpu_history
                    \o <<dequeued'[Len(dequeued')].item.cpu.total_percent>>, 60)
            /\ mem_history' = LastN(mem_history
                    \o <<dequeued'[Len(dequeued')].item.memory.percent>>, 60)
            /\ Len(time_history') = Len(cpu_history')
            /\ latest_snapshot' /= None
            /\ Val(latest_snapshot').timestamp = dequeued'[Len(dequeued')].item.timestamp
       /\ (logging_enabled' /= logging_enabled) =>
            /\ ui_pc = "idle"
            /\ UNCHANGED <<time_history, cpu_history, mem_history, latest_snapshot,
                           log_history, queue, dequeued>>
            /\ status_var' \in {<<"Logging started">>, <<"Logging stopped">>}]_vars

\* Logging was on for the first applied snapshot and off for the second,
\* which is charted and latest but not logged.
C9_Witness ==
    /\ Len(Applied) = 2
    /\ Applied[1].logging
    /\ ~Applied[2].logging
    /\ ~logging_enabled
    /\ Stamps(log_history) = <<Applied[1].item.timestamp>>
    /\ Len(cpu_history) = 2
    /\ Val(latest_snapshot).timestamp = Applied[2].item.timestamp

\* A snapshot without its process list (whose order the redraw may change).
Metrics(s) == [timestamp |-> s.timestamp, cpu |-> s.cpu, memory |-> s.memory,
               network |-> s.network]

\* C10: latest_snapshot is unset until a snapshot has been applied, and
\* from then on is the last snapshot (never an error sentinel) taken off
\* the queue: the one whose values are the last history entries, and never
\* the snapshot of an on-demand resample.
C10_LatestIsLastApplied ==
    IF Applied = <<>>
    THEN latest_snapshot = None
    ELSE /\ latest_snapshot /= None
         /\ ~IsError(Val(latest_snapshot))
         /\ Metrics(Val(latest_snapshot)) = Metrics(Applied[Len(Applied)].item)
         /\ cpu_history[Len(cpu_history)] = Val(latest_snapshot).cpu.total_percent
         /\ mem_history[Len(mem_history)] = Val(latest_snapshot).memory.percent
         /\ \A i \in DOMAIN calls :
              calls[i].t = Val(latest_snapshot).timestamp => calls[i].ctx = "bg"

\* An error sentinel was drained after the latest snapshot, and an
\* on-demand resample has returned a newer snapshot.
C10_Witness ==
    /\ latest_snapshot /= None
    /\ dequeued /= <<>>
    /\ IsError(dequeued[Len(dequeued)].item)
    /\ frame["ui"].pc = "returned"
    /\ frame["ui"].snap.timestamp > Val(latest_snapshot).timestamp

\* C11: a snapshot is immutable once produced: latest_snapshot and every
\* entry of log_history are snapshots exactly as the sampler enqueued them,
\* the process list in the order in which the sampler ranked it, whatever
\* sort_by selection the consumer redraws with.
C11_SnapshotImmutable ==
    /\ latest_snapshot /= None =>
          \E i \in DOMAIN enqueued : enqueued[i] = Val(latest_snapshot)
    /\ \A j \in DOMAIN log_history :
          \E i \in DOMAIN enqueued : enqueued[i] = log_history[j]

\* The rank of a process as the claim states it: the pair (cpu_percent,
\* memory_percent), an unavailable value counting as 0.
RankPair(p) ==
    <<IF p.cpu_percent = None THEN 0 ELSE p.cpu_percent[1],
      IF p.memory_percent = None THEN 0 ELSE p.memory_percent[1]>>

\* a >= b in the lexicographic order of pairs
PairGeq(a, b) == a[1] > b[1] \/ (a[1] = b[1] /\ a[2] >= b[2])

\* The process list a call of procs_sorted returned, and the table it ranked.
Ranked == Val(call.ret)
Table == call.arg

\* C12: the process list snapshot() returns has at most 50 entries, each
\* adjacent pair is in descending lexicographic order of (cpu_percent,
\* memory_percent) with None as 0, its entries are distinct processes of the
\* table, as many as the table has up to 50, and no process left out ranks
\* above one that was kept.
C12_Top50Ranked ==
    (call.fn = "procs_sorted" /\ call.ret /= None) =>
        /\ Len(Ranked) <= 50
        /\ Len(Ranked) = Min(Len(Table), 50)
        /\ \A i \in 1..(Len(Ranked) - 1) : PairGeq(RankPair(Ranked[i]), RankPair(Ranked[i+1]))
        /\ \A i \in DOMAIN Ranked : \E j \in DOMAIN Table : Table[j] = Ranked[i]
        /\ \A i, j \in DOMAIN Ranked : i /= j => Ranked[i].pid /= Ranked[j].pid
        /\ \A j \in DOMAIN Table :
             (\A i \in DOMAIN Ranked : Ranked[i] /= Table[j]) =>
                 \A i \in DOMAIN Ranked : PairGeq(RankPair(Ranked[i]), RankPair(Table[j]))

\* A table of more than 50 processes, some with unavailable values, was
\* ranked: processes enumerated after the 50th were kept, others left out.
C12_Witness ==
    /\ call.fn = "procs_sorted"
    /\ call.ret /= None
    /\ Len(Table) > 50
    /\ Len(Ranked) = 50
    /\ \E i \in DOMAIN Table : Table[i].cpu_percent = None
    /\ \E i \in DOMAIN Ranked : Ranked[i].pid > 50
    /\ \E i \in DOMAIN Ranked : Ranked[i].cpu_percent = None

\* The partition entries a call of the partition loop returned.
Listed == Val(call.ret).partitions

\* A usage record with all four values present.
Populated(u) ==
    Some([total |-> Some(u.total), used |-> Some(u.used), free |-> Some(u.free),
          percent |-> Some(u.percent)])

\* C13: when the usage query of a partition is denied, the partition loop
\* still lists every partition, the entry of a denied partition has usage
\* None, and the entry of every other partition has its usage fully
\* populated: no entry has a usage that is present with missing values.
C13_DeniedUsageIsNone ==
    (call.fn = "partitions" /\ call.ret /= None) =>
        /\ Len(Listed) = Len(call.arg)
        /\ \A i \in DOMAIN call.arg :
             /\ Listed[i].mountpoint = call.arg[i].mountpoint
             /\ Listed[i].usage = IF call.arg[i].usage = None THEN None
                                  ELSE Populated(Val(call.arg[i].usage))

\* A step of the periodic drain (each one moves the main thread's position).
DrainStep == ui_pc \in {"drain", "get"} /\ ui_pc' /= ui_pc

\* C14: the periodic drain never blocks.  get_nowait always finds an item;
\* the drain's next step can always be taken, whoever holds the sampler's
\* lock; with the queue empty it ends at once, changing nothing but the
\* pending timer; and no drain step enters snapshot(): the main thread's
\* snapshot() frame, the lock, the previous counters and the list of
\* snapshot() calls are left as they were.
C14_DrainNeverBlocks ==
    /\ [](ui_pc = "get" => queue /= <<>>)
    /\ [](ui_pc \in {"drain", "get"} => (frame["ui"].pc = "idle" /\ lock /= "ui"))
    /\ [](ui_pc = "drain" => ENABLED (DrainPoll \/ DrainDone))
    /\ [](ui_pc = "get" => ENABLED DrainOne)
    /\ [][DrainStep =>
            /\ UNCHANGED <<frame, lock, prev_net, prev_disk, calls, enqueued>>
            /\ ui_pc' \in {"drain", "get", "idle"}]_vars
    /\ [][(DrainStep /\ ui_pc = "drain" /\ queue = <<>>) =>
            /\ ui_pc' = "idle"
            /\ timer'
            /\ UNCHANGED <<queue, dequeued, core, widgets, ticks>>]_vars

\* While the sampler thread held the lock inside snapshot(), the drain took
\* an item, applied it, and is about to find the queue empty.
C14_Witness ==
    /\ ui_pc = "drain"
    /\ lock = "bg"
    /\ queue = <<>>
    /\ Len(Applied) = 1
    /\ proc_tree /= <<>>

\* The sampler thread has run the iterations of this run (the program's
\* loop has no end; the run of the model has).
RunOver == frame["bg"].pc = "loop" /\ samples = run.samples

\* The sampler thread waits for the lock an on-demand resample holds.
WaitsForLock == frame["bg"].pc = "acquire" /\ lock = "ui"

\* C15 as stated: nothing but its sleep holds the sampler thread up, so at
\* every position of its loop its next step can be taken.
C15_SuspendsOnlyAtSleep == ~RunOver => ENABLED sampler_thread

\* C15 (amended): the sampler thread can take its next step at every
\* position of its loop (a put never waits, however many items are queued
\* and whatever the main thread is doing, its drain dead or stalled
\* included), except at the entry of snapshot() while an on-demand resample
\* of the main thread holds the sampler's lock; and that resample can always
\* go on to release the lock.
C15_WaitsOnlyForResample ==
    /\ (~RunOver /\ ~WaitsForLock) => ENABLED sampler_thread
    /\ WaitsForLock => (~ENABLED sampler_thread /\ ENABLED snapshot("ui"))
    /\ lock = "ui" => ui_pc = "refresh"

\* The sampler thread waits at the lock while an item it enqueued before
\* is still in the queue.
C15_Witness ==
    /\ WaitsForLock
    /\ Len(queue) = 1
    /\ InSnapshot("ui")

\* The main thread is inside refresh_processes() before or after the step.
Resampling == ui_pc = "refresh" \/ ui_pc' = "refresh"

\* A step of the on-demand refresh_processes() itself.
ResampleStep == Resampling /\ (frame'["ui"] /= frame["ui"] \/ ui_pc' /= ui_pc)

\* C16: the on-demand resample bypasses the queue.  Its steps leave the
\* queue, the three histories, latest_snapshot, the log list, the logging
\* flag and the status text unchanged; from its start to its end the only
\* change to the queue is an item the sampler thread appends; and no
\* snapshot taken by the main thread is ever enqueued.  (What it does change
\* is the sampler's previous counters.)
C16_ResampleBypassesQueue ==
    /\ [][ResampleStep =>
            UNCHANGED <<queue, enqueued, dequeued, time_history, cpu_history, mem_history,
                        latest_snapshot, log_history, logging_enabled, status_var>>]_vars
    /\ [][Resampling =>
            /\ UNCHANGED <<core, dequeued>>
            /\ queue' /= queue =>
                  /\ frame["bg"].pc \in {"returned", "raised"}
                  /\ frame'["bg"].pc = "sleep"
                  /\ Len(queue') = Len(queue) + 1
                  /\ SubSeq(queue', 1, Len(queue)) = queue]_vars
    /\ [](\A i \in DOMAIN calls : \A j \in DOMAIN enqueued :
             calls[i].ctx = "ui" => enqueued[j].timestamp /= calls[i].t)

\* An on-demand resample has run to its end between the drain of the first
\* item and the drain of the second: the previous counters are the ones it
\* stored, the table shows its processes, the second item is still queued
\* and latest_snapshot is still the first.
C16_Witness ==
    /\ ui_pc = "idle"
    /\ calls[Len(calls)].ctx = "ui"
    /\ prev_net = calls[Len(calls)].net_io
    /\ prev_net /= calls[Len(calls) - 1].net_io
    /\ latest_snapshot /= None
    /\ Val(latest_snapshot).timestamp < calls[Len(calls)].t
    /\ Len(queue) = 1
    /\ Len(cpu_history) = 1
    /\ proc_tree /= <<>>

\* The labels of the claim, by number of divisions (none: bytes).
Labels == <<"", "K", "M", "G", "T", "P", "E", "Z", "Y">>

\* m * 1024^x < 1024, for a mantissa m below 2^21.
ValueBelow1024(m, x) ==
    IF m = 0 THEN TRUE
    ELSE IF x > 0 THEN FALSE
    ELSE IF x = 0 THEN m < 1024
    ELSE IF x = -1 THEN m < 1048576
    ELSE TRUE

\* The number of divisions by 1024 that bring m * 1024^e below 1024, 8 at most.
Divisions(m, e) ==
    IF \E j \in 0..8 : ValueBelow1024(m, e - j)
    THEN CHOOSE j \in 0..8 :
            /\ ValueBelow1024(m, e - j)
            /\ \A i \in 0..(j - 1) : ~ValueBelow1024(m, e - i)
    ELSE 8

\* The texts that are m * 1024^x with one decimal place: the number of
\* tenths T shown is within half a tenth of the value (two texts at a tie).
Renderings(m, x) ==
    IF m = 0 THEN {"0.0"}
    ELSE IF x >= 0 THEN {ToString(m * Pow1024(x)) \o ".0"}
    ELSE LET D == Pow1024(-x)
             Q == (10 * m) \div D
             R == (10 * m) % D
         IN  {ToString(T \div 10) \o "." \o ToString(T % 10) :
                 T \in {U \in {Q, Q + 1} : IF U = Q THEN 2 * R <= D ELSE 2 * (D - R) <= D}}

\* The byte count a human_bytes input stands for is m * 1024^e.
IsCount(num, m, e) == num = Some(Bytes(m, e))

\* C17: human_bytes(None) is "N/A"; for a byte count n >= 0 the result is
\* n divided by 1024 until it is below 1024 (8 times at most), shown with
\* one decimal place, followed by the label of that many divisions and "B".
\* In particular 0 gives "0.0B", 1536 gives "1.5KB" and 1073741824 (which
\* is 1024^3, 1024 * 1024^2 and 1048576 * 1024) gives "1.0GB".
C17_HumanBytes ==
    (call.fn = "human_bytes" /\ call.ret /= None) =>
        /\ call.arg = None => Val(call.ret) = "N/A"
        /\ call.arg /= None =>
             LET m == Val(call.arg).m
                 e == Val(call.arg).e
                 k == Divisions(m, e)
             IN  Val(call.ret) \in {t \o Labels[k + 1] \o "B" : t \in Renderings(m, e - k)}
        /\ IsCount(call.arg, 0, 0) => Val(call.ret) = "0.0B"
        /\ IsCount(call.arg, 1536, 0) => Val(call.ret) = "1.5KB"
        /\ (IsCount(call.arg, 1, 3) \/ IsCount(call.arg, 1024, 2)
                \/ IsCount(call.arg, 1048576, 1)) => Val(call.ret) = "1.0GB"

\* A byte count that is still 1024 or more after the eighth division was
\* formatted with the last label.
C17_Witness ==
    /\ call.fn = "human_bytes"
    /\ IsCount(call.arg, 1536, 8)
    /\ call.ret = Some("1536.0YB")

\* C18: the timer-driven context never dies: whenever no callback of the
\* main thread is running, the next _schedule_ui_update is pending (every
\* invocation has completed its drain and scheduled the next one), whatever
\* items were in the queue.
C18_TimerNeverDies == ui_pc = "idle" => timer

\* C19: applying a snapshot is all-or-nothing.  The step that applies a
\* snapshot while logging is on appends its values to the histories, stores
\* it as latest_snapshot and appends it to the log list, all three or none,
\* for every snapshot the sampler can produce.
C19_ApplyAllOrNothing ==
    [][(AppliesSnapshot /\ logging_enabled) =>
          \/ UNCHANGED <<time_history, cpu_history, mem_history, latest_snapshot, log_history>>
          \/ /\ cpu_history' = LastN(cpu_history
                      \o <<dequeued'[Len(dequeued')].item.cpu.total_percent>>, 60)
             /\ mem_history' = LastN(mem_history
                      \o <<dequeued'[Len(dequeued')].item.memory.percent>>, 60)
             /\ latest_snapshot' /= None
             /\ Val(latest_snapshot').timestamp = dequeued'[Len(dequeued')].item.timestamp
             /\ log_history' = Append(log_history, Val(latest_snapshot'))]_vars

\* The step in which the snapshot() call of context c fails.
Fails(c) == frame[c].pc \in {"query", "delta", "build"} /\ frame'[c].pc = "raised"

\* The previous-counter pair as the call of context c found it: the call
\* holds the lock from its entry on, and records the pair it read at lines
\* 112-117 in its frame; before that it is the sampler's own pair.
PairAtEntry(c) ==
    IF frame[c].pc = "build" THEN <<frame[c].prev_net, frame[c].prev_disk>>
    ELSE <<prev_net, prev_disk>>

\* C20: a snapshot() call that fails releases the lock and leaves
\* (prev_net, prev_disk) as it found them, so that the next call computes
\* its rates against the counters of the last successful call.
C20_FailedCallLeavesSampler ==
    [][\A c \in Contexts :
          Fails(c) => /\ lock' = "free"
                      /\ <<prev_net', prev_disk'>> = PairAtEntry(c)]_vars

\* The step of a clear_logs command.
ClearsLogs == clears' = clears + 1

\* clear_logs' effect on the core state and the queue: the log list is
\* emptied, nothing else changes.
ClearFrame ==
    /\ log_history' = <<>>
    /\ UNCHANGED <<logging_enabled, time_history, cpu_history, mem_history,
                   latest_snapshot, queue>>

\* After a clear_logs, a snapshot applied while logging is on joins the tail
\* of the log list.
LoggedAfterClear ==
    (clears >= 1 /\ AppliesSnapshot /\ logging_enabled) =>
        log_history' = Append(log_history, Val(latest_snapshot'))

\* C21: clear_logs empties the log list and changes nothing else of the core
\* state (flag, histories, latest snapshot, queue); the snapshots applied
\* afterwards while logging is on are appended to the log list, which so
\* grows from empty.
C21_ClearLogsFrame ==
    [][(ClearsLogs => ClearFrame) /\ LoggedAfterClear]_vars

====
